---- MODULE Spec2Model ----
(***************************************************************************)
(* A model of app.py: the two JSON routes /api/bio and /api/project and    *)
(* the adapter call_gemini they share.                                     *)
(*                                                                         *)
(* A Python string is a sequence of chunks.  A chunk is either one         *)
(* character of user input (Char) or one literal of the program (an error  *)
(* sentence, a prompt, a prefix), so that "a" + "b" is \o and "begins      *)
(* with" is a comparison of the first chunk.                               *)
(*                                                                         *)
(* A JSON document is described by the facts the code looks at: what kind  *)
(* of value stands at each place the code reads.                           *)
(***************************************************************************)
EXTENDS Naturals, Sequences, FiniteSets, TLC

\* Longest user-supplied string (keywords, role).
MaxLen == 3
\* Requests received over one run.
MaxRequests == 2
\* Worker threads of the host server (the concurrent specification).
NumThreads == 2

Threads == 1..NumThreads

----------------------------------------------------------------------------
(* Python values *)

Whitespace == {" ", "\t"}
Char == Whitespace \cup {"a"}

Strings == UNION {[1..n -> Char] : n \in 0..MaxLen}

\* A Python value as far as the code distinguishes it: None, a str, or
\* something else (a number, a list, ...).  "missing" is no value at all:
\* the key is not in the mapping.
Missing == [t |-> "missing", s |-> <<>>]
PyNone == [t |-> "none", s |-> <<>>]
PyOther == [t |-> "other", s |-> <<>>]
PyStr(s) == [t |-> "str", s |-> s]

IsSpace(c) == c \in Whitespace

RECURSIVE lstrip(_)
lstrip(s) == IF s # <<>> /\ IsSpace(Head(s)) THEN lstrip(Tail(s)) ELSE s

RECURSIVE rstrip(_)
rstrip(s) ==
    IF s # <<>> /\ IsSpace(s[Len(s)]) THEN rstrip(SubSeq(s, 1, Len(s) - 1)) ELSE s

\* str.strip() with no argument.
strip(s) == rstrip(lstrip(s))

----------------------------------------------------------------------------
(* Literals of the program *)

NO_KEYWORDS == <<"No keywords provided.">>
KEY_NOT_SET ==
    <<"Error: GEMINI_API_KEY is not set. Set it in your environment to enable AI features.">>
NO_VALID_TEXT == <<"Error: No valid text returned from Gemini.">>
ERROR_CALLING == <<"Error calling Gemini API: ">>
GEMINI_MODEL_URL ==
    <<"https://generativestorybooks.googleapis.com/v1beta/models/gemini-2.5-flash-preview-09-2025:generateContent">>
BIO_SYSTEM_PROMPT ==
    <<"You are a professional resume writer. Write an engaging, first-person 'About Me' section for a personal portfolio. The tone should be passionate and professional. Base it on the following keywords. Keep it to 3-4 concise paragraphs.">>
PROJECT_SYSTEM_PROMPT ==
    <<"You are a tech mentor. Suggest a new, impressive portfolio project idea. Respond with a title, a 1-2 sentence description, and 3-4 key technologies. Format your response in simple HTML (e.g., <h3>Title</h3><p>Description</p><p><strong>Tech:</strong> Tech 1, Tech 2</p>).">>
DEFAULT_ROLE == <<"AI Software Engineer">>
KEYWORDS_PREFIX == <<"Keywords: ">>
ROLE_PREFIX == <<"Role: ">>

----------------------------------------------------------------------------
(* The inbound request *)

\* What the body of a POST can be, as far as the handlers can tell:
\*   json  = "malformed"  not parseable as JSON
\*           "falsy"      JSON, but a falsy value: null, 0, "", [], {}
\*           "nondict"    JSON, truthy, and no mapping: [1], 5, "x", true
\*           "dict"       a non-empty mapping
\*   field = the value under the route's key ("keywords" or "role"),
\*           Missing when the key is not there.
RequestBody(j, f) == [json |-> j, field |-> f]

FieldValues(strs) == {Missing, PyNone, PyOther} \cup {PyStr(s) : s \in strs}

Bodies(strs) ==
    {RequestBody(j, Missing) : j \in {"malformed", "falsy", "nondict"}}
        \cup {RequestBody("dict", f) : f \in FieldValues(strs)}

Routes == {"bio", "project"}

\* Variant: get_json() without silent=True, which raises on a body that
\* does not parse.
get_json_strict(b) ==
    IF b.json = "malformed" THEN [t |-> "raise", field |-> Missing]
    ELSE [t |-> b.json, field |-> b.field]
\* request.get_json(silent=True): the parsed document, None when the body
\* does not parse (silent=True swallows the parse error).
get_json(b) ==
    IF b.json = "malformed" THEN [t |-> "none", field |-> Missing]
    ELSE [t |-> b.json, field |-> b.field]

\* `<parsed> or {}`
or_empty_dict(parsed) ==
    IF parsed.t \in {"none", "falsy"} THEN [t |-> "dict", field |-> Missing]
    ELSE parsed

\* data.get(key, default) followed by .strip(): the stripped string, or the
\* exception Python raises (data is no mapping, or the value is no str).
Raised(e) == [raised |-> TRUE, exc |-> e, val |-> PyNone]
Returned(v) == [raised |-> FALSE, exc |-> "", val |-> v]

get_strip(data, default) ==
    IF data.t # "dict" THEN Raised("AttributeError")
    ELSE LET v == IF data.field.t = "missing" THEN PyStr(default) ELSE data.field
         IN  IF v.t # "str" THEN Raised("AttributeError")
             ELSE Returned(PyStr(strip(v.s)))

\* What a handler does before it calls the adapter:
\*   "crash"   an exception leaves the handler
\*   "reject"  the handler answers 400 itself
\*   "call"    it calls call_gemini(user_query, system_prompt)
Crash == [kind |-> "crash", user_query |-> <<>>, system_prompt |-> <<>>]
Reject == [kind |-> "reject", user_query |-> <<>>, system_prompt |-> <<>>]
Call(q, p) == [kind |-> "call", user_query |-> q, system_prompt |-> p]

\* Variant: api_bio without the `if not keywords` return.
bio_prepare_no_validation(b) ==
    LET data == or_empty_dict(get_json(b))
        keywords == get_strip(data, <<>>)
    IN  IF keywords.raised THEN Crash
        ELSE Call(KEYWORDS_PREFIX \o keywords.val.s, BIO_SYSTEM_PROMPT)
\* api_bio, lines 70-83.
bio_prepare(b) ==
    LET data == or_empty_dict(get_json(b))
        keywords == get_strip(data, <<>>)
    IN  IF keywords.raised THEN Crash
        ELSE IF keywords.val.s = <<>> THEN Reject
        ELSE Call(KEYWORDS_PREFIX \o keywords.val.s, BIO_SYSTEM_PROMPT)

\* api_project, lines 94-105.
project_prepare(b) ==
    LET data == or_empty_dict(get_json(b))
        stripped == get_strip(data, DEFAULT_ROLE)
    IN  IF stripped.raised THEN Crash
        ELSE LET role == IF stripped.val.s = <<>> THEN DEFAULT_ROLE
                         ELSE stripped.val.s
             IN  Call(ROLE_PREFIX \o role, PROJECT_SYSTEM_PROMPT)

prepare(rt, b) == IF rt = "bio" THEN bio_prepare(b) ELSE project_prepare(b)

\* The HTTP response.  key is the one field of the JSON body; a 500 is the
\* host framework's generic error page and has none.
Response(st, k, v) == [status |-> st, key |-> k, val |-> v]
NoResponse == Response(0, "none", PyNone)
InternalServerError == Response(500, "none", PyNone)
BadRequest == Response(400, "error", PyStr(NO_KEYWORDS))
ResultKey(rt) == IF rt = "bio" THEN "text" ELSE "html"

----------------------------------------------------------------------------
(* The upstream reply *)

NA == "n/a"

\* The kinds of JSON value the walk through the reply tells apart.
JsonKinds == {"null", "object", "list", "mapping", "number", "empty"}

\* What requests.post can end in:
\*   net    = "ok" (a response arrived), "ConnectionError" or "Timeout"
\*   status = the HTTP status of the response
\*   the JSON body, by what stands at each place call_gemini reads:
\*     body       "not_json" | "object" | "other_json" ([..], null, 5)
\*     candidates "missing" | "null" | "empty" ([]) | "list" |
\*                "mapping" (a truthy value that is no list: {"a": 1})
\*     cand0      candidates[0]: "object" | "number" (or null, a string, ...)
\*     content    "missing" | "null" (or a number, a list, ...) | "object"
\*     parts      "missing" | "null" | "empty" ([]) | "list" | "number"
\*     part0      parts[0]: "null" | "object"
\*     text       parts[0]["text"]: Missing, None, a str, something else
Reply(n, st, b, c, c0, ct, p, p0, tx) ==
    [net |-> n, status |-> st, body |-> b, candidates |-> c, cand0 |-> c0,
     content |-> ct, parts |-> p, part0 |-> p0, text |-> tx]

Shape(b, c, c0, ct, p, p0, tx) == <<b, c, c0, ct, p, p0, tx>>

TextValues == {PyNone, PyOther, PyStr(<<>>), PyStr(<<"H">>), PyStr(NO_VALID_TEXT)}

Shapes ==
    {Shape("object", c, NA, NA, NA, NA, Missing) :
            c \in {"missing", "null", "empty", "mapping"}}
    \cup {Shape("object", "list", "number", NA, NA, NA, Missing)}
    \cup {Shape("object", "list", "object", ct, NA, NA, Missing) :
            ct \in {"missing", "null"}}
    \cup {Shape("object", "list", "object", "object", p, NA, Missing) :
            p \in {"missing", "null", "empty", "number"}}
    \cup {Shape("object", "list", "object", "object", "list", "null", Missing)}
    \cup {Shape("object", "list", "object", "object", "list", "object", tx) :
            tx \in {Missing} \cup TextValues}
    \cup {Shape("not_json", NA, NA, NA, NA, NA, Missing),
          Shape("other_json", NA, NA, NA, NA, NA, Missing)}

WithShape(n, st, sh) ==
    Reply(n, st, sh[1], sh[2], sh[3], sh[4], sh[5], sh[6], sh[7])

NoBody == Shape("not_json", NA, NA, NA, NA, NA, Missing)
NoReply == WithShape("none", 0, NoBody)

\* A success, a redirect the client did not follow, a client error and a
\* server error.
Statuses == {200, 304, 404, 503}

Replies ==
    {WithShape(n, 0, NoBody) : n \in {"ConnectionError", "Timeout"}}
    \cup {WithShape("ok", st, sh) : st \in Statuses, sh \in Shapes}

----------------------------------------------------------------------------
(* call_gemini *)

\* os.environ.get("GEMINI_API_KEY") gives None or a str.
KeyValues == {PyNone, PyStr(<<>>), PyStr(<<"k">>)}

\* Variant: `if GEMINI_API_KEY is None`.
key_missing_none_only(key) == key.t = "none"
\* `if not GEMINI_API_KEY`
key_missing(key) == key.t = "none" \/ (key.t = "str" /\ key.s = <<>>)

\* Variant: only a server error raises.
raise_for_status_5xx_only(status) == 500 <= status /\ status < 600
\* resp.raise_for_status(): requests raises HTTPError for a 4xx or 5xx
\* status and for no other.
raise_for_status(status) == 400 <= status /\ status < 600

\* Lines 44-52: resp.json() and the walk to candidates[0].content.parts[0].text.
\* Each step is the Python expression of that line, with the exception it
\* raises on a value of the wrong kind.
extract_text(u) ==
    \* resp.json(): requests.exceptions.JSONDecodeError is a
    \* RequestException, which line 54 catches.
    IF u.body = "not_json"
    THEN Returned(PyStr(ERROR_CALLING \o <<"JSONDecodeError">>))
    \* data.get("candidates")
    ELSE IF u.body # "object" THEN Raised("AttributeError")
    \* (... or [{}])[0]
    ELSE IF u.candidates = "mapping" THEN Raised("KeyError")
    ELSE LET candidate == IF u.candidates = "list" THEN u.cand0 ELSE "empty"
         IN
         \* candidate.get("content", {})
         IF candidate = "number" THEN Raised("AttributeError")
         ELSE LET content == IF candidate = "empty" \/ u.content = "missing"
                             THEN "empty" ELSE u.content
              IN
              \* content.get("parts", [])
              IF content = "null" THEN Raised("AttributeError")
              ELSE LET parts == IF content = "empty" \/ u.parts = "missing"
                                THEN "empty" ELSE u.parts
                   IN
                   \* if parts and "text" in parts[0]
                   IF parts \in {"null", "empty"} THEN Returned(PyStr(NO_VALID_TEXT))
                   ELSE IF parts = "number" THEN Raised("TypeError")
                   ELSE IF u.part0 = "null" THEN Raised("TypeError")
                   ELSE IF u.text.t = "missing" THEN Returned(PyStr(NO_VALID_TEXT))
                   \* return parts[0]["text"]
                   ELSE Returned(u.text)

\* Lines 36-55: what call_gemini ends in once requests.post has ended in u.
after_post(u) ==
    IF u.net # "ok" THEN Returned(PyStr(ERROR_CALLING \o <<u.net>>))
    ELSE IF raise_for_status(u.status)
         THEN Returned(PyStr(ERROR_CALLING \o <<"HTTPError">>))
    ELSE extract_text(u)

\* Lines 28-41: the one outbound POST.
Post(key, user_query, system_prompt) ==
    [url |-> GEMINI_MODEL_URL, key |-> key.s, text |-> user_query,
     systemInstruction |-> system_prompt, timeout |-> 30]
NoPost == [url |-> <<>>, key |-> <<>>, text |-> <<>>,
           systemInstruction |-> <<>>, timeout |-> 0]

----------------------------------------------------------------------------
(* State *)

VARIABLES
    GEMINI_API_KEY,  \* the module-level global, read from the environment
    pc,              \* where each worker thread is
    route,           \* the route of the request a thread handles
    request,         \* flask.request of the thread: the body it received
    user_query,      \* call_gemini's first argument
    system_prompt,   \* call_gemini's second argument
    outbox,          \* the POST the thread has sent, NoPost before
    upstream,        \* what that POST ended in, NoReply before
    result,          \* what call_gemini returned or raised
    response,        \* the HTTP response of the handler
    invocations,     \* observer: call_gemini invocations of the current request
    attempts,        \* observer: outbound POSTs of the current request
    received,        \* observer: requests received so far
    invoked,         \* observer: call_gemini invocations so far
    posts            \* observer: outbound POSTs so far (the mock's call counter)

locals == <<pc, route, request, user_query, system_prompt, outbox, upstream,
            result, response, invocations, attempts>>
observers == <<received, invoked, posts>>
vars == <<GEMINI_API_KEY, locals, observers>>

NoResult == Returned(PyNone)

Init ==
    /\ GEMINI_API_KEY \in KeyValues
    /\ pc = [t \in Threads |-> "idle"]
    /\ route = [t \in Threads |-> "none"]
    /\ request = [t \in Threads |-> RequestBody("none", Missing)]
    /\ user_query = [t \in Threads |-> <<>>]
    /\ system_prompt = [t \in Threads |-> <<>>]
    /\ outbox = [t \in Threads |-> NoPost]
    /\ upstream = [t \in Threads |-> NoReply]
    /\ result = [t \in Threads |-> NoResult]
    /\ response = [t \in Threads |-> NoResponse]
    /\ invocations = [t \in Threads |-> 0]
    /\ attempts = [t \in Threads |-> 0]
    /\ received = 0
    /\ invoked = 0
    /\ posts = 0

TypeOK ==
    /\ GEMINI_API_KEY \in KeyValues
    /\ \A t \in Threads :
        /\ pc[t] \in {"idle", "handler", "call_gemini", "posted", "return", "done"}
        /\ route[t] \in Routes \cup {"none"}
        /\ upstream[t].net \in {"none", "ok", "ConnectionError", "Timeout"}
        /\ {upstream[t].candidates, upstream[t].cand0, upstream[t].content,
            upstream[t].parts, upstream[t].part0} \subseteq JsonKinds \cup {"missing", NA}
        /\ response[t].status \in {0, 200, 400, 500}
    /\ received \in 0..MaxRequests
    /\ invoked \in 0..MaxRequests
    /\ posts \in 0..MaxRequests


\* Variant: one request object shared by all threads.
request_shared(t) == request[CHOOSE u \in Threads : pc[u] # "idle"]
\* flask.request is a context-local proxy: each thread sees its own request.
request_of(t) == request[t]

\* The host server hands a POST to an idle worker.
Receive(t, rt, b) ==
    /\ pc[t] = "idle"
    /\ received < MaxRequests
    /\ pc' = [pc EXCEPT ![t] = "handler"]
    /\ route' = [route EXCEPT ![t] = rt]
    /\ request' = [request EXCEPT ![t] = b]
    /\ received' = received + 1
    /\ UNCHANGED <<GEMINI_API_KEY, user_query, system_prompt, outbox, upstream,
                   result, response, invocations, attempts, invoked, posts>>

\* A handler up to its call of call_gemini (or its early return, or the
\* exception that leaves it and that Flask answers with a 500).
Handle(t, prepared) ==
    /\ IF prepared.kind = "call"
       THEN /\ pc' = [pc EXCEPT ![t] = "call_gemini"]
            /\ user_query' = [user_query EXCEPT ![t] = prepared.user_query]
            /\ system_prompt' = [system_prompt EXCEPT ![t] = prepared.system_prompt]
            /\ invocations' = [invocations EXCEPT ![t] = @ + 1]
            /\ invoked' = invoked + 1
            /\ UNCHANGED response
       ELSE /\ pc' = [pc EXCEPT ![t] = "done"]
            /\ response' = [response EXCEPT ![t] =
                   IF prepared.kind = "reject" THEN BadRequest
                   ELSE InternalServerError]
            /\ UNCHANGED <<user_query, system_prompt, invocations, invoked>>
    /\ UNCHANGED <<GEMINI_API_KEY, route, request, outbox, upstream, result,
                   attempts, received, posts>>

api_bio(t) ==
    /\ pc[t] = "handler"
    /\ route[t] = "bio"
    /\ Handle(t, bio_prepare(request_of(t)))

api_project(t) ==
    /\ pc[t] = "handler"
    /\ route[t] = "project"
    /\ Handle(t, project_prepare(request_of(t)))

\* call_gemini, lines 22-41: the key check, then the one POST.
call_gemini(t) ==
    /\ pc[t] = "call_gemini"
    /\ IF key_missing(GEMINI_API_KEY)
       THEN /\ result' = [result EXCEPT ![t] = Returned(PyStr(KEY_NOT_SET))]
            /\ pc' = [pc EXCEPT ![t] = "return"]
            /\ UNCHANGED <<outbox, attempts, posts>>
       ELSE /\ outbox' = [outbox EXCEPT ![t] =
                   Post(GEMINI_API_KEY, user_query[t], system_prompt[t])]
            /\ attempts' = [attempts EXCEPT ![t] = @ + 1]
            /\ posts' = posts + 1
            /\ pc' = [pc EXCEPT ![t] = "posted"]
            /\ UNCHANGED result
    /\ UNCHANGED <<GEMINI_API_KEY, route, request, user_query, system_prompt,
                   upstream, response, invocations, received, invoked>>

\* Variant: a POST that failed in transport is issued again.
pc_after_post_retry(u) == IF u.net # "ok" THEN "call_gemini" ELSE "return"
\* Where call_gemini goes once the POST has ended: it returns (or raises),
\* whatever the POST ended in; no path leads back to requests.post.
pc_after_post(u) == "return"

\* call_gemini, lines 37-55: the POST ends in u.
post_ends(t, u) ==
    /\ pc[t] = "posted"
    /\ upstream' = [upstream EXCEPT ![t] = u]
    /\ result' = [result EXCEPT ![t] = after_post(u)]
    /\ pc' = [pc EXCEPT ![t] = pc_after_post(u)]
    /\ UNCHANGED <<GEMINI_API_KEY, route, request, user_query, system_prompt,
                   outbox, response, invocations, attempts, observers>>

\* jsonify({"text": text}) / jsonify({"html": html}); an exception that left
\* call_gemini leaves the handler too.
respond(rt, r) ==
    IF r.raised THEN InternalServerError ELSE Response(200, ResultKey(rt), r.val)

handler_return(t) ==
    /\ pc[t] = "return"
    /\ response' = [response EXCEPT ![t] = respond(route[t], result[t])]
    /\ pc' = [pc EXCEPT ![t] = "done"]
    /\ UNCHANGED <<GEMINI_API_KEY, route, request, user_query, system_prompt,
                   outbox, upstream, result, invocations, attempts, observers>>

\* The response is on the wire; everything of the request is discarded.
Finish(t) ==
    /\ pc[t] = "done"
    /\ pc' = [pc EXCEPT ![t] = "idle"]
    /\ route' = [route EXCEPT ![t] = "none"]
    /\ request' = [request EXCEPT ![t] = RequestBody("none", Missing)]
    /\ user_query' = [user_query EXCEPT ![t] = <<>>]
    /\ system_prompt' = [system_prompt EXCEPT ![t] = <<>>]
    /\ outbox' = [outbox EXCEPT ![t] = NoPost]
    /\ upstream' = [upstream EXCEPT ![t] = NoReply]
    /\ result' = [result EXCEPT ![t] = NoResult]
    /\ response' = [response EXCEPT ![t] = NoResponse]
    /\ invocations' = [invocations EXCEPT ![t] = 0]
    /\ attempts' = [attempts EXCEPT ![t] = 0]
    /\ UNCHANGED <<GEMINI_API_KEY, observers>>

\* One worker, every request body and every upstream reply of the bounds.
Next ==
    \/ \E rt \in Routes, b \in Bodies(Strings) : Receive(1, rt, b)
    \/ api_bio(1)
    \/ api_project(1)
    \/ call_gemini(1)
    \/ \E u \in Replies : post_ends(1, u)
    \/ handler_return(1)
    \/ Finish(1)

Spec == Init /\ [][Next]_vars

\* All workers at once, over a few bodies and replies of every kind.
ConcBodies ==
    {RequestBody("malformed", Missing), RequestBody("dict", Missing),
     RequestBody("dict", PyNone), RequestBody("dict", PyStr(<<" ", "a">>))}

ConcReplies ==
    {WithShape("Timeout", 0, NoBody),
     WithShape("ok", 200, Shape("object", "list", "object", "object", "list",
                                "object", PyStr(<<"H">>))),
     WithShape("ok", 200, Shape("object", "list", "object", "null", NA, NA,
                                Missing))}

NextConc ==
    \E t \in Threads :
        \/ \E rt \in Routes, b \in ConcBodies : Receive(t, rt, b)
        \/ api_bio(t)
        \/ api_project(t)
        \/ call_gemini(t)
        \/ \E u \in ConcReplies : post_ends(t, u)
        \/ handler_return(t)
        \/ Finish(t)

SpecConc == Init /\ [][NextConc]_vars

----------------------------------------------------------------------------
(* Vocabulary of the properties, stated without the operators of the model *)

Blank(s) == \A i \in 1..Len(s) : s[i] \in {" ", "\t"}

\* s without its leading and trailing whitespace.
Trimmed(s) ==
    LET solid == {i \in 1..Len(s) : s[i] \notin {" ", "\t"}}
    IN  IF solid = {} THEN <<>>
        ELSE SubSeq(s, CHOOSE i \in solid : \A j \in solid : i <= j,
                       CHOOSE i \in solid : \A j \in solid : j <= i)

\* The thread has left the part of the handler that reads the request.
Handled(t) == pc[t] \in {"call_gemini", "posted", "return", "done"}
\* call_gemini has ended for the thread's request.
Ended(t) == pc[t] \in {"return", "done"} /\ invocations[t] > 0

IsMapping(b) == b.json \in {"falsy", "dict"}
KeySet == GEMINI_API_KEY.t = "str" /\ Len(GEMINI_API_KEY.s) > 0

NoKeywordsResponse ==
    [status |-> 400, key |-> "error", val |-> PyStr(<<"No keywords provided.">>)]
DefaultRoleQuery == <<"Role: ", "AI Software Engineer">>
KeyNotSetSentence ==
    PyStr(<<"Error: GEMINI_API_KEY is not set. Set it in your environment to enable AI features.">>)
NoValidTextSentence == PyStr(<<"Error: No valid text returned from Gemini.">>)
BeginsWithErrorCalling(v) ==
    v.t = "str" /\ Len(v.s) >= 1 /\ v.s[1] = "Error calling Gemini API: "

----------------------------------------------------------------------------
(* C1 *)

KeywordsAbsentOrBlank(b) ==
    /\ IsMapping(b)
    /\ \/ b.field.t = "missing"
       \/ b.field.t = "str" /\ Blank(b.field.s)

\* C1: a POST to /api/bio whose keywords field is missing, empty or
\* whitespace-only is answered 400 {"error": "No keywords provided."}, and
\* neither call_gemini nor an outbound POST happens for it.
C1_BlankKeywordsRejected ==
    \A t \in Threads :
        (route[t] = "bio" /\ Handled(t) /\ KeywordsAbsentOrBlank(request[t]))
            => /\ pc[t] = "done"
               /\ response[t] = NoKeywordsResponse
               /\ invocations[t] = 0
               /\ attempts[t] = 0
               /\ outbox[t] = NoPost

C1_Witness ==
    \E t \in Threads :
        /\ pc[t] = "done"
        /\ route[t] = "bio"
        /\ request[t].field.t = "str"
        /\ Len(request[t].field.s) >= 2
        /\ Blank(request[t].field.s)
        /\ response[t].status = 400

----------------------------------------------------------------------------
(* C2 *)

KeywordsGiven(b) == b.json = "dict" /\ b.field.t = "str" /\ ~Blank(b.field.s)

\* C2: a POST to /api/bio whose keywords are non-empty after trimming calls
\* call_gemini with "Keywords: " + the trimmed keywords and the bio system
\* prompt, and is answered 200 {"text": r}, r being what call_gemini returned.
C2_BioSuccess ==
    \A t \in Threads :
        (route[t] = "bio" /\ KeywordsGiven(request[t]) /\ Handled(t))
            => /\ user_query[t] = <<"Keywords: ">> \o Trimmed(request[t].field.s)
               /\ system_prompt[t] = BIO_SYSTEM_PROMPT
               /\ invocations[t] = 1
               /\ pc[t] = "done" =>
                      /\ ~result[t].raised
                      /\ response[t] =
                             [status |-> 200, key |-> "text", val |-> result[t].val]

----------------------------------------------------------------------------
(* C3 *)

RoleAbsentOrBlank(b) ==
    b.field.t \in {"missing", "none"} \/ (b.field.t = "str" /\ Blank(b.field.s))

ExpectedRoleQuery(b) ==
    IF RoleAbsentOrBlank(b) THEN DefaultRoleQuery
    ELSE <<"Role: ">> \o Trimmed(b.field.s)

\* C3: for every role value (missing, null, empty and whitespace-only
\* included) a POST to /api/project is answered 200 {"html": r}, r being what
\* call_gemini returned for the user query "Role: " + the trimmed role, or
\* "Role: AI Software Engineer" when the role is empty or missing.
C3_ProjectAlways200 ==
    \A t \in Threads :
        (route[t] = "project" /\ IsMapping(request[t])
            /\ request[t].field.t \in {"missing", "none", "str"} /\ pc[t] = "done")
            => /\ user_query[t] = ExpectedRoleQuery(request[t])
               /\ ~result[t].raised
               /\ response[t] =
                      [status |-> 200, key |-> "html", val |-> result[t].val]

----------------------------------------------------------------------------
(* C4 *)

\* C4: a field whose JSON value is null is treated like a missing field:
\* /api/bio answers 400 {"error": "No keywords provided."}, /api/project
\* answers 200 for the user query "Role: AI Software Engineer".
C4_NullIsMissing ==
    \A t \in Threads :
        (pc[t] = "done" /\ request[t].json = "dict" /\ request[t].field.t = "none")
            => /\ route[t] = "bio" => response[t] = NoKeywordsResponse
               /\ route[t] = "project" =>
                      /\ response[t].status = 200
                      /\ user_query[t] = DefaultRoleQuery

----------------------------------------------------------------------------
(* C5 *)

----------------------------------------------------------------------------
(* C6 *)

TextPathPresent(u) ==
    /\ u.body = "object" /\ u.candidates = "list" /\ u.cand0 = "object"
    /\ u.content = "object" /\ u.parts = "list" /\ u.part0 = "object"
    /\ u.text.t # "missing"

Is2xx(st) == 200 <= st /\ st <= 299

\* C6: with the key set and a 2xx reply that carries a JSON document,
\* call_gemini returns the value at candidates[0].content.parts[0].text when
\* that path is there, and for every other shape of the document it returns
\* "Error: No valid text returned from Gemini." and does not raise.
C6_ExtractOrShapeError ==
    \A t \in Threads :
        (Ended(t) /\ attempts[t] = 1 /\ upstream[t].net = "ok"
            /\ Is2xx(upstream[t].status) /\ upstream[t].body # "not_json")
            => /\ ~result[t].raised
               /\ result[t].val = IF TextPathPresent(upstream[t])
                                  THEN upstream[t].text
                                  ELSE NoValidTextSentence

----------------------------------------------------------------------------
(* C7 *)

TransportFailure(u) == u.net \in {"ConnectionError", "Timeout"}

CollapsedToErrorCalling(t) ==
    /\ ~result[t].raised
    /\ BeginsWithErrorCalling(result[t].val)
    /\ pc[t] = "done" =>
           response[t] = [status |-> 200,
                          key |-> IF route[t] = "bio" THEN "text" ELSE "html",
                          val |-> result[t].val]

\* C7 as stated: a network failure, a timeout or any non-2xx status makes
\* call_gemini return a string beginning "Error calling Gemini API: ", it
\* never raises, and the route answers 200.
C7_Non2xxCollapsed ==
    \A t \in Threads :
        (Ended(t) /\ attempts[t] = 1
            /\ (TransportFailure(upstream[t]) \/ ~Is2xx(upstream[t].status)))
            => CollapsedToErrorCalling(t)

\* C7 as amended: a network failure, a timeout or a 4xx/5xx status makes
\* call_gemini return a string beginning "Error calling Gemini API: ", it
\* never raises, and the route answers 200 with that string.
C7_ErrorStatusCollapsed ==
    \A t \in Threads :
        (Ended(t) /\ attempts[t] = 1
            /\ (TransportFailure(upstream[t])
                \/ (upstream[t].net = "ok" /\ upstream[t].status >= 400
                    /\ upstream[t].status <= 599)))
            => CollapsedToErrorCalling(t)

C7_Witness ==
    \E t \in Threads :
        /\ pc[t] = "done"
        /\ upstream[t].net = "ok"
        /\ upstream[t].status = 404
        /\ response[t].status = 200
        /\ BeginsWithErrorCalling(response[t].val)

----------------------------------------------------------------------------
(* C8 *)

\* C8 as stated: a request whose body does not parse as JSON raises an
\* unhandled exception and is answered with a generic 500.
C8_MalformedIs500 ==
    \A t \in Threads :
        (pc[t] = "done" /\ request[t].json = "malformed")
            => response[t].status = 500

\* C8 as amended: a request whose body does not parse as JSON raises
\* nothing in the handler and is treated as an empty mapping: /api/bio
\* answers 400 {"error": "No keywords provided."} without calling
\* call_gemini, /api/project calls call_gemini with "Role: AI Software
\* Engineer".
C8_MalformedIsEmptyMapping ==
    \A t \in Threads :
        (Handled(t) /\ request[t].json = "malformed")
            => /\ route[t] = "bio" =>
                      /\ pc[t] = "done"
                      /\ response[t] = NoKeywordsResponse
                      /\ invocations[t] = 0
               /\ route[t] = "project" =>
                      /\ invocations[t] = 1
                      /\ user_query[t] = DefaultRoleQuery
                      /\ system_prompt[t] = PROJECT_SYSTEM_PROMPT

C8_Witness ==
    \E t \in Threads :
        /\ pc[t] = "done"
        /\ request[t].json = "malformed"
        /\ route[t] = "project"
        /\ user_query[t] = DefaultRoleQuery
        /\ response[t].status = 200

----------------------------------------------------------------------------
(* C9 *)

\* C9: with the key set an invocation of call_gemini issues exactly one
\* POST and then ends, whatever the POST ended in: nothing is retried, and
\* over any sequence of requests the POSTs never outnumber the requests
\* that passed validation.
C9_OnePostPerInvocation ==
    /\ posts <= invoked
    /\ invoked <= received
    /\ \A t \in Threads :
        /\ invocations[t] <= 1
        /\ attempts[t] <= invocations[t]
        /\ (KeySet /\ invocations[t] = 1 /\ pc[t] \in {"posted", "return", "done"})
               => attempts[t] = 1

C9_Witness ==
    /\ posts = 2
    /\ invoked = 2
    /\ \E t \in Threads :
        /\ pc[t] = "done"
        /\ attempts[t] = 1
        /\ upstream[t].net = "Timeout"

----------------------------------------------------------------------------
(* C10 *)

\* The response of a request handled alone, from what is its own: its
\* route and body, the API key, and what its own POST ended in.
ResponseAlone(rt, b, key, u) ==
    LET prepared == prepare(rt, b)
    IN  IF prepared.kind = "crash" THEN InternalServerError
        ELSE IF prepared.kind = "reject" THEN BadRequest
        ELSE IF key_missing(key) THEN respond(rt, Returned(PyStr(KEY_NOT_SET)))
        ELSE respond(rt, after_post(u))

LocalsOf(t) ==
    <<pc[t], route[t], request[t], user_query[t], system_prompt[t], outbox[t],
      upstream[t], result[t], response[t], invocations[t], attempts[t]>>

\* C10: under every interleaving of concurrently handled requests no step
\* writes the API key, a step touches the locals of one request only, and
\* the response of a request is the one it gets when handled alone: it
\* depends on its own body, the key and its own outbound call only.
C10_RequestsIndependent ==
    /\ [](\A t \in Threads :
            pc[t] = "done" =>
                response[t] = ResponseAlone(route[t], request[t], GEMINI_API_KEY,
                                            upstream[t]))
    /\ [][/\ GEMINI_API_KEY' = GEMINI_API_KEY
          /\ \E t \in Threads :
                \A u \in Threads \ {t} : LocalsOf(u)' = LocalsOf(u)]_vars

C10_Witness ==
    /\ pc[1] = "done"
    /\ pc[2] = "posted"
    /\ route[1] = route[2]
    /\ request[1] # request[2]
    /\ user_query[1] # user_query[2]
    /\ response[1].status = 200

====
